---------------------------- MODULE Spec2Model ----------------------------
(***************************************************************************)
(* Ingestion and hybrid retrieval of the EU AI Act chatbot:                *)
(*   - EUAIActProcessor.process   (processors/document_processor.py)       *)
(*   - KnowledgeGraph             (storage/knowledge_graph.py)             *)
(*   - VectorStore                (storage/vector_store.py)                *)
(*   - HybridRetriever            (retrieval/hybrid_retriever.py)          *)
(*   - main                       (scripts/process_eu_ai_act.py)           *)
(*   - the session API            (app/routers/sessions.py, chat.py,       *)
(*                                 app/services/storage.py)                *)
(*                                                                         *)
(* Text is modelled at token level: a line, a paragraph text or a query is *)
(* a sequence of tokens (whitespace-separated words).  strip() and the     *)
(* joins with " " are then concatenation of token sequences, and the       *)
(* regular expressions of the source become tests on the leading tokens.   *)
(***************************************************************************)
EXTENDS Integers, Sequences, FiniteSets, Bags, TLC

VARIABLES
    \* ---- document processing pipeline (scripts/process_eu_ai_act.py) ----
    doc_lines,      \* lines of full_doc_text extracted so far
    p_pc,           \* "extracting" | "processed" | "exit1" | "ingesting"
    p_result,       \* what process() handed to main: [raised, articles]
    \* ---- knowledge graph (Neo4j) ----
    a_nodes,        \* set of Article nodes [number, title]
    p_nodes,        \* set of Paragraph nodes [id, number, text]
    contains,       \* bag of CONTAINS edges <<article number, paragraph id>>
    references,     \* bag of REFERENCES edges <<paragraph id, article number>>
    last_store,     \* the last store_articles call: [input, outcome, rerun]
    n_calls,        \* number of store_articles calls made
    \* ---- vector index (Pinecone) ----
    v_index,        \* set of vector records [id, article, title, paragraph, text]
    last_vstore,    \* the last VectorStore.store_articles call and its batches
    n_vcalls,       \* number of VectorStore.store_articles calls made
    \* ---- hybrid retrieval ----
    last_search,    \* the last HybridRetriever.search call and what it did
    \* ---- direct reads of the stores ----
    last_read,      \* the last read call on a store, its arguments and its result
    \* ---- session API (app/) ----
    sessions,       \* the sessions table: session id -> [messages]
    last_response,  \* the last HTTP request to the API and its response
    \* ---- calls in progress, transaction by transaction and request by request ----
    ingest_run,     \* the two store_articles calls of one ingestion of a list
    search_run      \* one HybridRetriever.search call and the backend call it waits for

parse_vars == <<doc_lines, p_pc, p_result>>
graph_vars == <<a_nodes, p_nodes, contains, references>>
store_vars == <<a_nodes, p_nodes, contains, references, last_store, n_calls>>
vector_vars == <<v_index, last_vstore, n_vcalls>>
vars == <<doc_lines, p_pc, p_result, a_nodes, p_nodes, contains, references,
          last_store, n_calls, v_index, last_vstore, n_vcalls, last_search,
          last_read, sessions, last_response, ingest_run, search_run>>
rag_vars == <<doc_lines, p_pc, p_result, a_nodes, p_nodes, contains, references,
              last_store, n_calls, v_index, last_vstore, n_vcalls, last_search,
              last_read, ingest_run, search_run>>
app_vars == <<sessions, last_response>>
step_vars == <<ingest_run, search_run>>

-----------------------------------------------------------------------------
(* Bounds of the model *)

\* longest extracted document, in lines
MaxLines == 5
\* store_articles calls in one behaviour
MaxCalls == 3
\* VectorStore.store_articles calls in one behaviour
MaxVectorCalls == 2
\* runs of the ingestion script in one behaviour
MaxRuns == 1
\* messages kept in one session
MaxMessages == 4
\* UPSERT_BATCH_SIZE = 100, scaled down to the article lists of the model
UPSERT_BATCH_SIZE == 2

-----------------------------------------------------------------------------
(* Generic helpers *)

Range(s) == {s[i] : i \in 1..Len(s)}

RECURSIVE Flatten(_)
\* " ".join(seq of lines) at token level
Flatten(ls) == IF ls = <<>> THEN <<>> ELSE Head(ls) \o Flatten(Tail(ls))

-----------------------------------------------------------------------------
(* Tokens and the regular expressions of the source *)

\* the word matched by  Article  /  [Aa]rticle
ArticleWords == {"Article"}
\* \d+ tokens
NumTokens == {"1", "2", "9", "10"}
\* tokens of the form  n.  or  (n).
DotMarks == {"1.", "2.", "(2)."}

\* the digits (\d+) captured at the start of a token
DigitsOf(t) ==
    CASE t = "1." -> "1"
      [] t = "2." -> "2"
      [] t = "(2)." -> "2"
      [] OTHER -> t

\* what is left of a token after its leading digits
RestOf(t) == IF t \in {"1.", "2."} THEN <<".">> ELSE <<>>

\* re.match(r'Article\s+(\d+)\s*(.*)', line, re.IGNORECASE)
ArticleMatch(line) ==
    /\ Len(line) >= 2
    /\ line[1] \in ArticleWords
    /\ line[2] \in NumTokens \cup {"1.", "2."}

\* article_match.group(1)
ArticleNumberOf(line) == DigitsOf(line[2])

\* article_match.group(2).strip() if article_match.group(2) else line
ArticleTitleOf(line) ==
    LET rest == RestOf(line[2]) \o SubSeq(line, 3, Len(line))
    IN  IF rest # <<>> THEN rest ELSE line

\* re.match(r'^\s*(?:\()?(\d+)(?:\))?\.\s+(.*)', line): the marker must be
\* followed by whitespace, hence by another token of the stripped line
ParagraphMatch(line) ==
    /\ Len(line) >= 2
    /\ line[1] \in DotMarks

\* paragraph_match.group(1)
ParagraphNumberOf(line) == DigitsOf(line[1])

-----------------------------------------------------------------------------
(* EUAIActProcessor.process *)

\* the lines the text extraction can produce
LineSet ==
    { <<>>,                          \* empty line
      <<"Article", "1", "Scope">>,   \* header with a title
      <<"Article", "2">>,            \* header without a title
      <<"Article", "1", "applies", "to", "systems">>,
                                     \* a sentence that starts like a header
      <<"1.", "applies">>,           \* numbered paragraph
      <<"(2).", "means">>,           \* numbered paragraph, parenthesised
      <<"systems">>,                 \* continuation line
      <<"1.">> }                     \* a marker alone: no paragraph start

NoArticle == <<>>

\* state of the line loop before the first line
LoopInit == [articles |-> <<>>, current_article |-> NoArticle, paragraph_buffer |-> <<>>]

\* the buffered paragraph, as a one-element list, or nothing
BufferedParagraph(buf) ==
    IF buf # <<>> /\ ParagraphMatch(buf[1])
    THEN << [number |-> ParagraphNumberOf(buf[1]), text |-> Flatten(buf)] >>
    ELSE <<>>

\* one iteration of  for line in lines
ProcessLine(st, line) ==
    IF line = <<>> THEN st
    ELSE IF ArticleMatch(line) THEN
        [articles |-> st.articles \o st.current_article,
         current_article |-> << [number |-> ArticleNumberOf(line),
                                 title |-> ArticleTitleOf(line),
                                 content |-> <<line>>,
                                 paragraphs |-> <<>>] >>,
         paragraph_buffer |-> <<>>]
    ELSE IF st.current_article # NoArticle THEN
        LET cur == st.current_article[1]
            cur1 == [cur EXCEPT !.content = Append(@, line)]
        IN  IF ParagraphMatch(line) THEN
                [st EXCEPT
                   !.current_article =
                       << [cur1 EXCEPT !.paragraphs = @ \o BufferedParagraph(st.paragraph_buffer)] >>,
                   !.paragraph_buffer = <<line>>]
            ELSE IF st.paragraph_buffer # <<>> THEN
                [st EXCEPT !.current_article = <<cur1>>,
                           !.paragraph_buffer = Append(@, line)]
            ELSE [st EXCEPT !.current_article = <<cur1>>]
    ELSE st

RECURSIVE LineLoop(_, _)
\* for line in lines: ...
LineLoop(st, lines) ==
    IF lines = <<>> THEN st ELSE LineLoop(ProcessLine(st, Head(lines)), Tail(lines))

\* Finalize without lines 126-130: the last article is never appended
FinalizeWithoutLastArticle(st) == st.articles

\* after the loop: the last buffered paragraph, then the last article
Finalize(st) ==
    IF st.current_article = NoArticle THEN st.articles
    ELSE LET cur == st.current_article[1]
         IN  Append(st.articles,
                    [cur EXCEPT !.paragraphs = @ \o BufferedParagraph(st.paragraph_buffer)])

\* process(): what the caller receives
Process(lines) ==
    IF lines = <<>> THEN [raised |-> FALSE, articles |-> <<>>]
    ELSE [raised |-> FALSE, articles |-> Finalize(LineLoop(LoopInit, lines))]

-----------------------------------------------------------------------------
(* Numbers as strings: article and paragraph numbers are digit strings *)

\* the characters of a number string, as digits
DigitsIn(s) ==
    CASE s = "1" -> <<1>>
      [] s = "2" -> <<2>>
      [] s = "9" -> <<9>>
      [] s = "10" -> <<1, 0>>
      [] OTHER -> <<>>

RECURSIVE DigitsValue(_)
\* int(s) / toInteger(s)
DigitsValue(d) == IF d = <<>> THEN 0 ELSE 10 * DigitsValue(SubSeq(d, 1, Len(d) - 1)) + d[Len(d)]

ToInteger(s) == DigitsValue(DigitsIn(s))

RECURSIVE SeqLess(_, _)
\* lexicographic order of two character sequences
SeqLess(x, y) ==
    IF y = <<>> THEN FALSE
    ELSE IF x = <<>> THEN TRUE
    ELSE IF Head(x) # Head(y) THEN Head(x) < Head(y)
    ELSE SeqLess(Tail(x), Tail(y))

\* Python's and Cypher's  a < b  on strings
StrLess(a, b) == SeqLess(DigitsIn(a), DigitsIn(b))

-----------------------------------------------------------------------------
(* KnowledgeGraph: the graph and its MERGE queries *)

EmptyGraph == [a_nodes |-> {}, p_nodes |-> {}, contains |-> EmptyBag, references |-> EmptyBag]

Graph == [a_nodes |-> a_nodes, p_nodes |-> p_nodes, contains |-> contains, references |-> references]

\* f"article_{article_number}_para_{para_number}"
ParaId(article_number, para_number) == <<"article", article_number, "para", para_number>>

\* MergeEdge with CREATE for MERGE: one more edge on every call
CreateEdge(edges, e) == edges (+) SetToBag({e})

\* MERGE (x)-[:R]->(y): the edge is created only when there is none yet
MergeEdge(edges, e) == IF BagIn(e, edges) THEN edges ELSE edges (+) SetToBag({e})

\* MergeArticle without  ON MATCH SET a.title = $title: a node that exists keeps its title
MergeArticleOnCreateOnly(g, number, title) ==
    IF \E n \in g.a_nodes : n.number = number
    THEN g
    ELSE [g EXCEPT !.a_nodes = @ \cup {[number |-> number, title |-> title]}]

\* MERGE (a:Article {number: $number}) ON CREATE/ON MATCH SET a.title = $title
MergeArticle(g, number, title) ==
    IF \E n \in g.a_nodes : n.number = number
    THEN [g EXCEPT !.a_nodes = {IF n.number = number THEN [n EXCEPT !.title = title] ELSE n : n \in @}]
    ELSE [g EXCEPT !.a_nodes = @ \cup {[number |-> number, title |-> title]}]

\* MergeParagraph that also deletes the REFERENCES edges of the paragraph,
\* so that the reference transaction rebuilds them from the new text
MergeParagraphResettingReferences(g, article_number, para_id, para_number, text) ==
    IF ~ \E n \in g.a_nodes : n.number = article_number THEN g
    ELSE [g EXCEPT
            !.p_nodes =
                IF \E p \in @ : p.id = para_id
                THEN {IF p.id = para_id THEN [p EXCEPT !.number = para_number, !.text = text] ELSE p : p \in @}
                ELSE @ \cup {[id |-> para_id, number |-> para_number, text |-> text]},
            !.contains = MergeEdge(@, <<article_number, para_id>>),
            !.references = SetToBag({e \in BagToSet(@) : e[1] # para_id})]

\* MATCH (a:Article {number}) MERGE (p:Paragraph {id}) SET p.number, p.text
\* MERGE (a)-[:CONTAINS]->(p)
MergeParagraph(g, article_number, para_id, para_number, text) ==
    IF ~ \E n \in g.a_nodes : n.number = article_number THEN g
    ELSE [g EXCEPT
            !.p_nodes =
                IF \E p \in @ : p.id = para_id
                THEN {IF p.id = para_id THEN [p EXCEPT !.number = para_number, !.text = text] ELSE p : p \in @}
                ELSE @ \cup {[id |-> para_id, number |-> para_number, text |-> text]},
            !.contains = MergeEdge(@, <<article_number, para_id>>)]

\* MergeReference with the target inside the MERGE pattern,
\* MERGE (p1)-[:REFERENCES]->(a2:Article {number}): a missing target is created
MergeReferenceCreatingTarget(g, para_id, ref_number) ==
    IF \E p \in g.p_nodes : p.id = para_id
    THEN [g EXCEPT
            !.a_nodes = IF \E n \in @ : n.number = ref_number THEN @
                        ELSE @ \cup {[number |-> ref_number, title |-> ""]},
            !.references = MergeEdge(@, <<para_id, ref_number>>)]
    ELSE g

\* MATCH (p1:Paragraph {id}) MATCH (a2:Article {number}) MERGE (p1)-[:REFERENCES]->(a2)
MergeReference(g, para_id, ref_number) ==
    IF /\ \E p \in g.p_nodes : p.id = para_id
       /\ \E n \in g.a_nodes : n.number = ref_number
    THEN [g EXCEPT !.references = MergeEdge(@, <<para_id, ref_number>>)]
    ELSE g

RECURSIVE CreateParagraphNodes(_, _, _)
\* for para in article.get("paragraphs", [])
CreateParagraphNodes(g, article_number, paras) ==
    IF paras = <<>> THEN g
    ELSE LET para == Head(paras)
             g1 == IF para.number = "" \/ para.text = <<>> THEN g
                   ELSE MergeParagraph(g, article_number,
                                       ParaId(article_number, para.number),
                                       para.number, para.text)
         IN  CreateParagraphNodes(g1, article_number, Tail(paras))

RECURSIVE CreateArticleAndParagraphNodes(_, _)
\* _create_article_and_paragraph_nodes
CreateArticleAndParagraphNodes(g, articles) ==
    IF articles = <<>> THEN g
    ELSE LET article == Head(articles)
             g1 == IF article.number = "" THEN g
                   ELSE CreateParagraphNodes(
                            MergeArticle(g, article.number, article.title),
                            article.number, article.paragraphs)
         IN  CreateArticleAndParagraphNodes(g1, Tail(articles))

\* set(re.findall(r'[Aa]rticle\s+(\d+)', para_text))
UniqueRefs(text) ==
    { DigitsOf(text[i + 1]) :
        i \in { j \in 1..(Len(text) - 1) :
                  /\ text[j] \in ArticleWords
                  /\ text[j + 1] \in NumTokens \cup {"1.", "2."} } }

RECURSIVE CreateParagraphRefsWithSelf(_, _, _, _)
\* CreateParagraphRefs without  if ref_number != article_number
CreateParagraphRefsWithSelf(g, article_number, para_id, refs) ==
    IF refs = {} THEN g
    ELSE LET ref_number == CHOOSE r \in refs : TRUE
         IN  CreateParagraphRefsWithSelf(MergeReference(g, para_id, ref_number),
                                         article_number, para_id, refs \ {ref_number})

RECURSIVE CreateParagraphRefs(_, _, _, _)
\* for ref_number in unique_refs: if ref_number != article_number: MERGE ...
CreateParagraphRefs(g, article_number, para_id, refs) ==
    IF refs = {} THEN g
    ELSE LET ref_number == CHOOSE r \in refs : TRUE
             g1 == IF ref_number # article_number
                   THEN MergeReference(g, para_id, ref_number)
                   ELSE g
         IN  CreateParagraphRefs(g1, article_number, para_id, refs \ {ref_number})

RECURSIVE CreateArticleRefs(_, _, _)
CreateArticleRefs(g, article_number, paras) ==
    IF paras = <<>> THEN g
    ELSE LET para == Head(paras)
             g1 == IF para.number = "" \/ para.text = <<>> THEN g
                   ELSE CreateParagraphRefs(g, article_number,
                                            ParaId(article_number, para.number),
                                            UniqueRefs(para.text))
         IN  CreateArticleRefs(g1, article_number, Tail(paras))

RECURSIVE CreateCrossReferences(_, _)
\* _create_cross_references
CreateCrossReferences(g, articles) ==
    IF articles = <<>> THEN g
    ELSE LET article == Head(articles)
             g1 == IF article.number = "" THEN g
                   ELSE CreateArticleRefs(g, article.number, article.paragraphs)
         IN  CreateCrossReferences(g1, Tail(articles))

\* how a store_articles call can end: both transactions commit, the node
\* transaction fails (rolled back), or the reference transaction fails
StoreOutcomes == {"ok", "nodes_failed", "refs_failed"}

\* store_articles: two managed write transactions in one session; the
\* exception of a failed transaction is caught and logged
StoreArticlesResult(g, articles, outcome) ==
    CASE outcome = "nodes_failed" -> g
      [] outcome = "refs_failed" -> CreateArticleAndParagraphNodes(g, articles)
      [] OTHER -> CreateCrossReferences(CreateArticleAndParagraphNodes(g, articles), articles)

-----------------------------------------------------------------------------
(* KnowledgeGraph: the read queries *)

\* p.text CONTAINS $keyword: a case-sensitive substring test; a keyword is
\* one \w+ word, so it lies inside one token of the text
TokenContains(t, k) == t = k \/ (t = "systems" /\ k = "system")

TextContains(text, k) == \E i \in 1..Len(text) : TokenContains(text[i], k)

\* ORDER BY article, paragraph_number  (both are strings)
RowBefore(r1, r2) ==
    \/ StrLess(r1.article, r2.article)
    \/ r1.article = r2.article /\ StrLess(r1.paragraph_number, r2.paragraph_number)

RECURSIVE OrderRows(_)
OrderRows(rows) ==
    IF rows = {} THEN <<>>
    ELSE LET first == CHOOSE r \in rows : \A q \in rows \ {r} : ~ RowBefore(q, r)
         IN  <<first>> \o OrderRows(rows \ {first})

\* the first n elements of a list
Take(s, n) == SubSeq(s, 1, IF n < Len(s) THEN n ELSE Len(s))

\* _execute_keyword_search: MATCH (a)-[:CONTAINS]->(p) WHERE ... ORDER BY ... LIMIT
ExecuteKeywordSearch(g, keywords, limit) ==
    LET rows == { [article |-> a.number, title |-> a.title,
                   paragraph_number |-> p.number, text |-> p.text] :
                  <<a, p>> \in { x \in g.a_nodes \X g.p_nodes :
                                   /\ BagIn(<<x[1].number, x[2].id>>, g.contains)
                                   /\ \E k \in keywords : TextContains(x[2].text, k) } }
    IN  Take(OrderRows(rows), limit)

\* how the graph backend behaves during one keyword search: it answers, or it
\* fails after `upto` records have been read
GraphSearchBackends == { [fail |-> FALSE, upto |-> 0], [fail |-> TRUE, upto |-> 0], [fail |-> TRUE, upto |-> 1] }

\* KnowledgeGraph.search: [raised, called, results]
KnowledgeGraphSearch(g, keywords, top_k, backend) ==
    IF keywords = {} THEN [raised |-> FALSE, called |-> FALSE, results |-> <<>>]
    ELSE LET rows == ExecuteKeywordSearch(g, keywords, top_k)
         IN  [raised |-> FALSE, called |-> TRUE,
              results |-> IF backend.fail THEN Take(rows, backend.upto) ELSE rows]

RECURSIVE OrderParagraphsAsStrings(_)
\* OrderParagraphs with ORDER BY p.number, the order of the stored strings
OrderParagraphsAsStrings(ps) ==
    IF ps = {} THEN <<>>
    ELSE LET first == CHOOSE p \in ps : \A q \in ps \ {p} : StrLess(p.number, q.number)
         IN  <<first.text>> \o OrderParagraphsAsStrings(ps \ {first})

RECURSIVE OrderParagraphs(_)
\* WITH a, p ORDER BY toInteger(p.number) ... collect(p.text)
OrderParagraphs(ps) ==
    IF ps = {} THEN <<>>
    ELSE LET first == CHOOSE p \in ps : \A q \in ps \ {p} : ToInteger(p.number) <= ToInteger(q.number)
         IN  <<first.text>> \o OrderParagraphs(ps \ {first})

NotFound == <<>>

\* _execute_get_article: result.single(), a record or None
ExecuteGetArticle(g, number) ==
    LET ps == { p \in g.p_nodes : BagIn(<<number, p.id>>, g.contains) }
        as == { a \in g.a_nodes : a.number = number }
    IN  IF as = {} \/ ps = {} THEN NotFound
        ELSE << [title |-> (CHOOSE a \in as : TRUE).title, paragraphs |-> OrderParagraphs(ps)] >>

\* GetArticleContent without the try/except around the session
GetArticleContentUncaught(g, article_number, lookup_fails) ==
    IF article_number = "" THEN [raised |-> FALSE, value |-> NotFound]
    ELSE IF lookup_fails THEN [raised |-> TRUE, value |-> NotFound]
    ELSE LET record == ExecuteGetArticle(g, article_number)
         IN  IF record # NotFound
             THEN [raised |-> FALSE,
                   value |-> << [article |-> article_number,
                                 title |-> record[1].title,
                                 content |-> record[1].paragraphs] >>]
             ELSE [raised |-> FALSE, value |-> NotFound]

\* get_article_content: [raised, value], value a one-element list or NotFound.
\* lookup_fails: the session or the read transaction raises
GetArticleContent(g, article_number, lookup_fails) ==
    IF article_number = "" THEN [raised |-> FALSE, value |-> NotFound]
    ELSE IF lookup_fails THEN [raised |-> FALSE, value |-> NotFound]
    ELSE LET record == ExecuteGetArticle(g, article_number)
         IN  IF record # NotFound
             THEN [raised |-> FALSE,
                   value |-> << [article |-> article_number,
                                 title |-> record[1].title,
                                 content |-> record[1].paragraphs] >>]
             ELSE [raised |-> FALSE, value |-> NotFound]

-----------------------------------------------------------------------------
(* VectorStore.store_articles *)

\* article.get("number", "N/A"), para.get("number", "N/A"): a number that is
\* missing (written "" in the model) is replaced by the default
NumberOrDefault(number) == IF number = "" THEN "N/A" ELSE number

\* vector_id = f"article_{article_number}_para_{para_number}"
VectorId(article_number, para_number) == <<"article", article_number, "para", para_number>>

\* the vector record of one paragraph.  The embedding is a function of the
\* text; the texts and titles of the model are shorter than the lengths the
\* metadata is truncated to.
VectorRecord(article, para) ==
    [id |-> VectorId(NumberOrDefault(article.number), NumberOrDefault(para.number)),
     article |-> NumberOrDefault(article.number),
     title |-> article.title,
     paragraph |-> NumberOrDefault(para.number),
     text |-> para.text]

\* an index that adds a vector without replacing the one stored under its id
InsertVector(index, v) == index \cup {v}

\* index.upsert of one vector: the record stored under the id is replaced
UpsertVector(index, v) == { r \in index : r.id # v.id } \cup {v}

RECURSIVE UpsertVectors(_, _)
UpsertVectors(index, vectors) ==
    IF vectors = <<>> THEN index
    ELSE UpsertVectors(UpsertVector(index, Head(vectors)), Tail(vectors))

\* UpsertBatch that keeps the vectors of a failed batch for the next request
UpsertBatchKeepingFailed(st, vectors) ==
    LET failed == (Len(st.batches) + 1) \in st.fail_batches
    IN  [st EXCEPT !.index = IF failed THEN @ ELSE UpsertVectors(@, vectors),
                   !.batches = Append(@, [ids |-> [i \in 1..Len(vectors) |-> vectors[i].id],
                                          failed |-> failed]),
                   !.vectors_to_upsert = IF failed THEN @ ELSE <<>>]

\* _upsert_batch: the batch is written, or the upsert raises and the
\* exception is logged; st.fail_batches names the batches whose upsert raises
UpsertBatch(st, vectors) ==
    LET failed == (Len(st.batches) + 1) \in st.fail_batches
    IN  [st EXCEPT !.index = IF failed THEN @ ELSE UpsertVectors(@, vectors),
                   !.batches = Append(@, [ids |-> [i \in 1..Len(vectors) |-> vectors[i].id],
                                          failed |-> failed]),
                   !.vectors_to_upsert = <<>>]

\* the body of the paragraph loop; st.encode_fails names the paragraphs for
\* which model.encode raises (caught and logged, the paragraph is dropped)
StoreParagraph(st, article, para) ==
    IF para.text = <<>> THEN st
    ELSE IF VectorRecord(article, para).id \in st.encode_fails THEN st
    ELSE LET st1 == [st EXCEPT !.vectors_to_upsert = Append(@, VectorRecord(article, para))]
         IN  IF Len(st1.vectors_to_upsert) >= UPSERT_BATCH_SIZE
             THEN UpsertBatch(st1, st1.vectors_to_upsert)
             ELSE st1

RECURSIVE StoreParagraphs(_, _, _)
StoreParagraphs(st, article, paras) ==
    IF paras = <<>> THEN st
    ELSE StoreParagraphs(StoreParagraph(st, article, Head(paras)), article, Tail(paras))

RECURSIVE StoreArticleVectors(_, _)
\* the article loop; an article without paragraphs is skipped
StoreArticleVectors(st, articles) ==
    IF articles = <<>> THEN st
    ELSE StoreArticleVectors(StoreParagraphs(st, Head(articles), Head(articles).paragraphs),
                             Tail(articles))

\* VectorStore.store_articles: the index afterwards and the batches submitted
VectorStoreArticles(index, articles, encode_fails, fail_batches) ==
    LET st0 == [index |-> index, vectors_to_upsert |-> <<>>, batches |-> <<>>,
                encode_fails |-> encode_fails, fail_batches |-> fail_batches]
        st == StoreArticleVectors(st0, articles)
    IN  IF st.vectors_to_upsert # <<>> THEN UpsertBatch(st, st.vectors_to_upsert) ELSE st

-----------------------------------------------------------------------------
(* VectorStore.search *)

\* what the embedding model and the Pinecone index do with one query: they
\* fail, or the index answers with a ranked list of matches
\* (each match carries the article number of its metadata, "" when it has none)
VectorBackends ==
    { [fail |-> TRUE, matches |-> <<>>],
      [fail |-> FALSE, matches |-> <<>>],
      [fail |-> FALSE, matches |-> << [article |-> "1"] >>],
      [fail |-> FALSE, matches |-> << [article |-> "2"], [article |-> "2"] >>],
      [fail |-> FALSE, matches |-> << [article |-> "10"], [article |-> "9"] >>],
      [fail |-> FALSE, matches |-> << [article |-> ""], [article |-> "2"] >>] }

\* VectorStoreSearch without the try/except around encode and index.query
VectorStoreSearchUncaught(query, backend) ==
    IF query = <<>> THEN [raised |-> FALSE, called |-> FALSE, matches |-> <<>>]
    ELSE IF backend.fail THEN [raised |-> TRUE, called |-> TRUE, matches |-> <<>>]
    ELSE [raised |-> FALSE, called |-> TRUE, matches |-> backend.matches]

\* VectorStore.search: [raised, called, matches]
VectorStoreSearch(query, backend) ==
    IF query = <<>> THEN [raised |-> FALSE, called |-> FALSE, matches |-> <<>>]
    ELSE IF backend.fail THEN [raised |-> FALSE, called |-> TRUE, matches |-> <<>>]
    ELSE [raised |-> FALSE, called |-> TRUE, matches |-> backend.matches]

-----------------------------------------------------------------------------
(* HybridRetriever *)

\* str.lower() of a query word
Lower(t) ==
    CASE t = "What" -> "what"
      [] t = "Risk" -> "risk"
      [] OTHER -> t

\* len(word)
WordLength(w) ==
    CASE w = "ai" -> 2
      [] w \in {"what", "risk", "2024"} -> 4
      [] w = "system" -> 6
      [] OTHER -> 7

\* word.isalpha()
IsAlpha(w) == w # "2024"

\* min_length: int = 4
MinLength == 4
\* top_k_graph: int = 5
TopKGraph == 5

\* the token " " stands for a run of whitespace that separates no words;
\* re.findall(r'\b\w+\b', ...) finds no word in it
IsWord(t) == t # " "

\* _extract_keywords: the unique lower-cased alphabetic words of min_length or more
ExtractKeywords(query) ==
    { Lower(query[i]) : i \in { j \in 1..Len(query) :
        /\ IsWord(query[j])
        /\ WordLength(Lower(query[j])) >= MinLength /\ IsAlpha(Lower(query[j])) } }

RECURSIVE SortedStrings(_)
\* sorted(list(article_numbers)): the order of Python strings
SortedStrings(S) ==
    IF S = {} THEN <<>>
    ELSE LET first == CHOOSE x \in S : \A y \in S \ {x} : StrLess(x, y)
         IN  <<first>> \o SortedStrings(S \ {first})

\* the article numbers a result list names; `if article_num:` drops the empty ones
ArticlesOfMatches(matches) == { matches[i].article : i \in 1..Len(matches) } \ {""}

RECURSIVE FetchLoop(_, _, _, _)
\* for article_num in sorted(list(article_numbers)): ...
\* acc = [final_context, retrieved_articles, get_calls, raised]
FetchLoop(g, order, get_fails, acc) ==
    IF order = <<>> \/ acc.raised THEN acc
    ELSE LET article_num == Head(order)
         IN  IF article_num \in acc.retrieved_articles
             THEN FetchLoop(g, Tail(order), get_fails, acc)
             ELSE LET got == GetArticleContent(g, article_num, article_num \in get_fails)
                      acc1 == [acc EXCEPT !.get_calls = Append(@, article_num),
                                          !.raised = got.raised]
                  IN  IF got.value # NotFound
                      THEN FetchLoop(g, Tail(order), get_fails,
                                     [acc1 EXCEPT !.final_context = @ \o got.value,
                                                  !.retrieved_articles = @ \cup {article_num}])
                      ELSE FetchLoop(g, Tail(order), get_fails, acc1)

FetchInit == [final_context |-> <<>>, retrieved_articles |-> {}, get_calls |-> <<>>, raised |-> FALSE]

\* what a search that has not happened looks like
NoSearch ==
    [done |-> FALSE, query |-> <<>>, raised |-> FALSE, result |-> <<>>,
     vector_called |-> FALSE, vector_fail |-> FALSE, vector_results |-> <<>>,
     keywords |-> {}, graph_called |-> FALSE, graph_fail |-> FALSE, graph_results |-> <<>>,
     get_fails |-> {}, get_calls |-> <<>>]

\* lines 41-100 of search: the two search paths, then the fetch loop
RunSearch(g, query, vbackend, gbackend, get_fails) ==
      LET v == VectorStoreSearch(query, vbackend)
          keywords == ExtractKeywords(query)
          k == IF v.raised \/ keywords = {}
               THEN [raised |-> FALSE, called |-> FALSE, results |-> <<>>]
               ELSE KnowledgeGraphSearch(g, keywords, TopKGraph, gbackend)
          article_numbers == ArticlesOfMatches(v.matches) \cup ArticlesOfMatches(k.results)
          f == IF v.raised \/ k.raised THEN FetchInit
               ELSE FetchLoop(g, SortedStrings(article_numbers), get_fails, FetchInit)
          raised == v.raised \/ k.raised \/ f.raised
      IN  [done |-> TRUE, query |-> query, raised |-> raised,
           result |-> IF raised THEN <<>> ELSE f.final_context,
           vector_called |-> TRUE, vector_fail |-> vbackend.fail /\ v.called,
           vector_results |-> v.matches,
           keywords |-> keywords, graph_called |-> ~ v.raised /\ keywords # {},
           graph_fail |-> gbackend.fail /\ k.called, graph_results |-> k.results,
           get_fails |-> get_fails, get_calls |-> f.get_calls]

\* HybridSearch without  if not query: return []
HybridSearchWithoutQueryCheck(g, query, vbackend, gbackend, get_fails) ==
    RunSearch(g, query, vbackend, gbackend, get_fails)

\* HybridRetriever.search(query): the record of the call, its result included
HybridSearch(g, query, vbackend, gbackend, get_fails) ==
    IF query = <<>> THEN [NoSearch EXCEPT !.done = TRUE]
    ELSE RunSearch(g, query, vbackend, gbackend, get_fails)

-----------------------------------------------------------------------------
(* The session API: StorageService and the routers *)

\* the session ids in use; a new session gets one that is not stored (uuid4)
SessionIds == {"s1", "s2", "s3"}

\* session_id = None in a MessageRequest
NoSessionId == ""

\* None
NoSession == <<>>

\* StorageService.get_session: the stored session, or None when the id is
\* empty, no row has the id, or the backend raises (caught, logged)
StorageGetSession(table, session_id, fails) ==
    IF session_id = NoSessionId THEN NoSession
    ELSE IF fails THEN NoSession
    ELSE IF session_id \in DOMAIN table THEN <<table[session_id]>>
    ELSE NoSession

\* StorageService.save_session: [table, id].  An id is generated when the
\* session has none; when the upsert raises, the session goes to the memory
\* of this request's StorageService only, and the id is returned all the same
StorageSaveSession(table, session_data, new_id, fails) ==
    LET id == IF session_data.id = NoSessionId THEN new_id ELSE session_data.id
        row == [session_data EXCEPT !.id = id]
    IN  [table |-> IF fails THEN table
                   ELSE [k \in DOMAIN table \cup {id} |-> IF k = id THEN row ELSE table[k]],
         id |-> id]

\* StorageService.delete_session: [table, success].  The delete is issued
\* without looking whether a row has the id; success is False only for an
\* empty id or when the backend raises
StorageDeleteSession(table, session_id, fails) ==
    IF session_id = NoSessionId THEN [table |-> table, success |-> FALSE]
    ELSE IF fails THEN [table |-> table, success |-> FALSE]
    ELSE [table |-> [k \in DOMAIN table \ {session_id} |-> table[k]], success |-> TRUE]

\* `except Exception` of a handler: whatever was raised in its try block,
\* an HTTPException included, becomes a 500 response
ExceptException(outcome) ==
    IF outcome.raised THEN [outcome EXCEPT !.status = 500] ELSE outcome

\* `except HTTPException: raise` before `except Exception`: an HTTPException
\* keeps its status, any other exception becomes a 500 response
ExceptHTTPExceptionFirst(outcome) ==
    IF outcome.raised /\ ~ outcome.http THEN [outcome EXCEPT !.status = 500] ELSE outcome

\* GET /sessions/{session_id}
RouterGetSession(table, session_id, fails) ==
    LET session_data == StorageGetSession(table, session_id, fails)
    IN  ExceptException(
            IF session_data = NoSession
            THEN [raised |-> TRUE, http |-> TRUE, status |-> 404, table |-> table]
            ELSE [raised |-> FALSE, http |-> FALSE, status |-> 200, table |-> table])

\* DELETE /sessions/{session_id}
RouterDeleteSession(table, session_id, fails) ==
    LET r == StorageDeleteSession(table, session_id, fails)
    IN  ExceptHTTPExceptionFirst(
            IF ~ r.success
            THEN [raised |-> TRUE, http |-> TRUE, status |-> 404, table |-> r.table]
            ELSE [raised |-> FALSE, http |-> FALSE, status |-> 204, table |-> r.table])

\* POST /chat/message: [raised, http, status, table, saved].  llm_fails: a
\* call of the LLM or n8n service raises
ProcessMessage(table, session_id, new_id, get_fails, llm_fails, save_fails) ==
    LET session_data == IF session_id # NoSessionId
                        THEN StorageGetSession(table, session_id, get_fails)
                        ELSE << [id |-> NoSessionId, messages |-> <<>>] >>
    IN  ExceptException(
            IF session_data = NoSession
            THEN [raised |-> TRUE, http |-> TRUE, status |-> 404, table |-> table,
                  saved |-> FALSE]
            ELSE IF llm_fails
            THEN [raised |-> TRUE, http |-> FALSE, status |-> 500, table |-> table,
                  saved |-> FALSE]
            ELSE LET updated == [session_data[1] EXCEPT
                                   !.messages = @ \o <<"user", "assistant">>]
                     r == StorageSaveSession(table, updated, new_id, save_fails)
                 IN  [raised |-> FALSE, http |-> FALSE, status |-> 200,
                      table |-> r.table, saved |-> TRUE])

-----------------------------------------------------------------------------
(* Inputs *)

Art1 == [number |-> "1", title |-> "Scope",
         paragraphs |-> << [number |-> "1", text |-> <<"1.", "applies", "systems">>] >>]

\* article 1 again, with another title and a text that cites article 2
Art1b == [number |-> "1", title |-> "Subject",
          paragraphs |-> << [number |-> "1", text |-> <<"1.", "see", "Article", "2">>] >>]

\* paragraph 1 cites article 1 twice and its own article; paragraph 2 cites only its own
Art2 == [number |-> "2", title |-> "Definitions",
         paragraphs |-> << [number |-> "1",
                            text |-> <<"1.", "risk", "Article", "1", "and", "Article", "1", "Article", "2">>],
                           [number |-> "2", text |-> <<"(2).", "see", "Article", "2">>] >>]

\* paragraphs 10 and 9, in that order; paragraph 10 cites article 9
Art10 == [number |-> "10", title |-> "Entry",
          paragraphs |-> << [number |-> "10", text |-> <<"Risk", "Article", "9">>],
                            [number |-> "9", text |-> <<"risk">>] >>]

\* an article none of whose paragraphs can be stored
Art9 == [number |-> "9", title |-> "Annex",
         paragraphs |-> << [number |-> "", text |-> <<"risk">>],
                           [number |-> "1", text |-> <<>>] >>]

\* an article without a number
ArtNoNumber == [number |-> "", title |-> "Lost",
                paragraphs |-> << [number |-> "1", text |-> <<"risk">>] >>]

\* the article lists handed to store_articles
ArticleInputs ==
    { <<>>, <<Art1>>, <<Art2>>, <<Art1b>>, <<Art1, Art2>>, <<Art2, Art1b>>,
      <<Art2, Art10>>, <<Art10, Art9>>, <<Art9, ArtNoNumber>> }

\* the queries handed to HybridRetriever.search
Queries ==
    { <<>>, <<" ">>, <<"risk">>, <<"What", "Risk", "system">>, <<"ai", "2024">>,
      <<"applies">> }

\* the sets of article numbers whose get_article_content lookup fails
GetFailures == { {}, {"1"}, {"2", "10"} }

\* the sets of paragraphs whose embedding fails in one store_articles call
EncodeFailures == { {}, {VectorId("2", "1")} }

\* the sets of batches whose upsert fails in one store_articles call
BatchFailures == { {}, {1}, {2} }

\* the keyword lists handed to KnowledgeGraph.search
KeywordSets == { {}, {"risk"}, {"see", "Article"}, {"system"} }

\* the values of top_k handed to KnowledgeGraph.search
Limits == {1, TopKGraph}

\* the article numbers handed to get_article_content
ArticleNumbers == NumTokens \cup {""}

-----------------------------------------------------------------------------
(* Actions *)

NoStore == [input |-> <<>>, outcome |-> "none", rerun |-> FALSE]

NoRead == [op |-> "none"]

NoVectorStore == [input |-> <<>>, encode_fails |-> {}, batches |-> <<>>]

NoRequest == [op |-> "none"]

AppInit ==
    /\ sessions = << >>
    /\ last_response = NoRequest

VectorInit ==
    /\ v_index = {}
    /\ last_vstore = NoVectorStore
    /\ n_vcalls = 0

ParseInit ==
    /\ doc_lines = <<>>
    /\ p_pc = "extracting"
    /\ p_result = [raised |-> FALSE, articles |-> <<>>]

StoreInit ==
    /\ a_nodes = {}
    /\ p_nodes = {}
    /\ contains = EmptyBag
    /\ references = EmptyBag
    /\ last_store = NoStore
    /\ n_calls = 0

\* no ingestion has been started
NoRun ==
    [n |-> 0, input |-> <<>>, articles |-> <<>>,
     g_pc |-> "idle", g_outcome |-> "none", g_raised |-> FALSE, g0 |-> EmptyGraph,
     v_pc |-> "idle", v_rest |-> <<>>, v0 |-> {},
     v_st |-> [index |-> {}, vectors_to_upsert |-> <<>>, batches |-> <<>>,
               encode_fails |-> {}, fail_batches |-> {}]]

\* no search has been started
NoSearchRun ==
    [pc |-> "idle", query |-> <<>>, hangs |-> "none",
     vbackend |-> [fail |-> FALSE, matches |-> <<>>],
     gbackend |-> [fail |-> FALSE, upto |-> 0],
     record |-> NoSearch]

StepInit ==
    /\ ingest_run = NoRun
    /\ search_run = NoSearchRun

Init ==
    /\ ParseInit
    /\ StoreInit
    /\ VectorInit
    /\ AppInit
    /\ StepInit
    /\ last_search = NoSearch
    /\ last_read = NoRead

\* the page loop of process(): one more line of extracted text
Extract(line) ==
    /\ p_pc = "extracting"
    /\ Len(doc_lines) < MaxLines
    /\ doc_lines' = Append(doc_lines, line)
    /\ UNCHANGED <<p_pc, p_result, store_vars, vector_vars, last_search, last_read, app_vars, step_vars>>

\* main(): process the document; exit(1) when nothing was extracted
Main ==
    /\ p_pc = "extracting"
    /\ LET r == Process(doc_lines)
       IN  /\ p_result' = r
           /\ p_pc' = IF r.raised \/ r.articles = <<>> THEN "exit1" ELSE "ingesting"
    /\ UNCHANGED <<doc_lines, store_vars, vector_vars, last_search, last_read, app_vars, step_vars>>

\* KnowledgeGraph.store_articles(articles), the backend behaving as `outcome`
StoreArticles(articles, outcome, max_calls) ==
    /\ n_calls < max_calls
    /\ LET g == StoreArticlesResult(Graph, articles, outcome)
       IN  /\ a_nodes' = g.a_nodes
           /\ p_nodes' = g.p_nodes
           /\ contains' = g.contains
           /\ references' = g.references
    /\ last_store' = [input |-> articles, outcome |-> outcome,
                      rerun |-> last_store.outcome = "ok" /\ last_store.input = articles]
    /\ n_calls' = n_calls + 1
    /\ last_search' = NoSearch
    /\ last_read' = NoRead
    /\ UNCHANGED <<parse_vars, vector_vars, app_vars, step_vars>>

\* VectorStore.store_articles(articles), the embedding model and the index
\* behaving as given
StoreVectors(articles, encode_fails, fail_batches, max_calls) ==
    /\ n_vcalls < max_calls
    /\ LET r == VectorStoreArticles(v_index, articles, encode_fails, fail_batches)
       IN  /\ v_index' = r.index
           /\ last_vstore' = [input |-> articles, encode_fails |-> encode_fails,
                              batches |-> r.batches]
    /\ n_vcalls' = n_vcalls + 1
    /\ UNCHANGED <<parse_vars, store_vars, last_search, last_read, app_vars, step_vars>>

\* HybridRetriever.search(query), the backends behaving as given.
\* A search changes nothing but its own record, so one search is recorded per
\* graph state: a later search of the same graph yields the records the first
\* one can yield.
Search(query, vbackend, gbackend, get_fails) ==
    /\ ~ last_search.done
    /\ last_search' = HybridSearch(Graph, query, vbackend, gbackend, get_fails)
    /\ UNCHANGED <<parse_vars, store_vars, vector_vars, last_read, app_vars, step_vars>>

\* KnowledgeGraph.get_article_content(article_number) called directly.
\* A read changes nothing but its own record, so one read is recorded per
\* state of the stores.
GetArticle(article_number, lookup_fails) ==
    /\ last_read.op = "none"
    /\ LET r == GetArticleContent(Graph, article_number, lookup_fails)
       IN  last_read' = [op |-> "get_article", number |-> article_number,
                         lookup_fails |-> lookup_fails,
                         raised |-> r.raised, value |-> r.value]
    /\ UNCHANGED <<parse_vars, store_vars, vector_vars, last_search, app_vars, step_vars>>

-----------------------------------------------------------------------------
(* Specifications *)

\* ingestion runs before the retrieval specification starts to query
MaxIngest == 2

Store == \E articles \in ArticleInputs, outcome \in StoreOutcomes :
            StoreArticles(articles, outcome, MaxCalls)

Ingest == \E articles \in ArticleInputs, outcome \in StoreOutcomes :
            StoreArticles(articles, outcome, MaxIngest)

Query == \E query \in Queries, vbackend \in VectorBackends,
            gbackend \in GraphSearchBackends, get_fails \in GetFailures :
            Search(query, vbackend, gbackend, get_fails)

ExtractLine == \E line \in LineSet : Extract(line)

\* the document processing pipeline
NextParse == ExtractLine \/ Main
SpecParse == Init /\ [][NextParse]_vars

\* the knowledge graph under repeated ingestion
NextStore == Store
SpecStore == Init /\ [][NextStore]_vars

\* ingestion, then hybrid retrieval
Next == Ingest \/ Query
Spec == Init /\ [][Next]_vars

\* KnowledgeGraph.search(keywords, top_k) called directly
SearchKeywords(keywords, top_k, backend) ==
    /\ last_read.op = "none"
    /\ LET r == KnowledgeGraphSearch(Graph, keywords, top_k, backend)
       IN  last_read' = [op |-> "keyword_search", keywords |-> keywords,
                         top_k |-> top_k, backend_fail |-> backend.fail /\ r.called,
                         raised |-> r.raised, results |-> r.results]
    /\ UNCHANGED <<parse_vars, store_vars, vector_vars, last_search, app_vars, step_vars>>

\* VectorStore.search(query) called directly
SearchVector(query, backend) ==
    /\ last_read.op = "none"
    /\ LET r == VectorStoreSearch(query, backend)
       IN  last_read' = [op |-> "vector_search", query |-> query,
                         backend_fail |-> backend.fail /\ r.called,
                         called |-> r.called, raised |-> r.raised,
                         matches |-> r.matches]
    /\ UNCHANGED <<parse_vars, store_vars, vector_vars, last_search, app_vars, step_vars>>

StoreVector == \E articles \in ArticleInputs, encode_fails \in EncodeFailures,
                  fail_batches \in BatchFailures :
                  StoreVectors(articles, encode_fails, fail_batches, MaxVectorCalls)

\* the vector index under repeated ingestion
NextVector == StoreVector
SpecVector == Init /\ [][NextVector]_vars

\* main(), step 2: vector_store.store_articles(articles)
ScriptVector == \E articles \in ArticleInputs, encode_fails \in EncodeFailures,
                   fail_batches \in BatchFailures :
                   /\ n_vcalls = n_calls
                   /\ StoreVectors(articles, encode_fails, fail_batches, MaxRuns)

\* main(), step 3: knowledge_graph.store_articles(articles), the same list
ScriptGraph == \E outcome \in StoreOutcomes :
                  /\ n_calls < n_vcalls
                  /\ StoreArticles(last_vstore.input, outcome, MaxRuns)

\* the two storage steps of the ingestion script
NextIngest == ScriptVector \/ ScriptGraph
SpecIngest == Init /\ [][NextIngest]_vars

\* a request GET /sessions/{session_id}
GetSession(session_id, fails) ==
    /\ LET r == RouterGetSession(sessions, session_id, fails)
       IN  /\ sessions' = r.table
           /\ last_response' = [op |-> "get_session", session_id |-> session_id,
                                existed |-> session_id \in DOMAIN sessions,
                                backend_fails |-> fails, status |-> r.status]
    /\ UNCHANGED rag_vars

\* a request DELETE /sessions/{session_id}
DeleteSession(session_id, fails) ==
    /\ LET r == RouterDeleteSession(sessions, session_id, fails)
       IN  /\ sessions' = r.table
           /\ last_response' = [op |-> "delete_session", session_id |-> session_id,
                                existed |-> session_id \in DOMAIN sessions,
                                backend_fails |-> fails, status |-> r.status]
    /\ UNCHANGED rag_vars

\* a request POST /chat/message
PostMessage(session_id, new_id, get_fails, llm_fails, save_fails) ==
    /\ new_id \notin DOMAIN sessions \/ session_id # NoSessionId
    /\ session_id \in DOMAIN sessions => Len(sessions[session_id].messages) < MaxMessages
    /\ LET r == ProcessMessage(sessions, session_id, new_id, get_fails, llm_fails,
                               save_fails)
       IN  /\ sessions' = r.table
           /\ last_response' = [op |-> "post_message", session_id |-> session_id,
                                existed |-> session_id \in DOMAIN sessions,
                                backend_fails |-> get_fails, status |-> r.status,
                                saved |-> r.saved]
    /\ UNCHANGED rag_vars

GetRequest == \E session_id \in SessionIds, fails \in BOOLEAN :
                 GetSession(session_id, fails)

DeleteRequest == \E session_id \in SessionIds, fails \in BOOLEAN :
                    DeleteSession(session_id, fails)

PostRequest == \E session_id \in SessionIds \cup {NoSessionId}, new_id \in SessionIds,
                  get_fails \in BOOLEAN, llm_fails \in BOOLEAN, save_fails \in BOOLEAN :
                  PostMessage(session_id, new_id, get_fails, llm_fails, save_fails)

\* the session API under any sequence of requests
NextApp == PostRequest \/ GetRequest \/ DeleteRequest
SpecApp == Init /\ [][NextApp]_vars

ReadArticle == \E article_number \in ArticleNumbers, lookup_fails \in BOOLEAN :
                  GetArticle(article_number, lookup_fails)

ReadKeywords == \E keywords \in KeywordSets, top_k \in Limits,
                   backend \in GraphSearchBackends :
                   SearchKeywords(keywords, top_k, backend)

ReadVector == \E query \in Queries, backend \in VectorBackends :
                 SearchVector(query, backend)

\* ingestion, then direct reads of the stores
NextRead == Ingest \/ ReadArticle \/ ReadKeywords \/ ReadVector
SpecRead == Init /\ [][NextRead]_vars

-----------------------------------------------------------------------------
(* Document processing: C1, C6, C7 *)

\* positions of the article header lines of a document
HeaderPositions(lines) == { i \in 1..Len(lines) : ArticleMatch(lines[i]) }

\* position of the k-th header line
NthHeader(lines, k) ==
    CHOOSE i \in HeaderPositions(lines) :
        Cardinality({ j \in HeaderPositions(lines) : j < i }) = k - 1

\* the numbers of the numbered-paragraph lines of the k-th article, in order
ExpectedParagraphNumbers(lines, k) ==
    LET H == HeaderPositions(lines)
        last == IF k = Cardinality(H) THEN Len(lines) ELSE NthHeader(lines, k + 1) - 1
        marks == SelectSeq(SubSeq(lines, NthHeader(lines, k) + 1, last), ParagraphMatch)
    IN  [i \in 1..Len(marks) |-> ParagraphNumberOf(marks[i])]

Processed == p_pc # "extracting"

\* C1: for a document of N articles where article i has m_i numbered
\* paragraphs, process returns N articles in input order and article i holds
\* its m_i paragraphs, in order, with their numbers -- the paragraph still
\* buffered at the next article header included.
C1_AllParagraphsKept ==
    Processed =>
        /\ Len(p_result.articles) = Cardinality(HeaderPositions(doc_lines))
        /\ \A k \in 1..Len(p_result.articles) :
             LET a == p_result.articles[k]
             IN  /\ a.number = ArticleNumberOf(doc_lines[NthHeader(doc_lines, k)])
                 /\ [i \in 1..Len(a.paragraphs) |-> a.paragraphs[i].number]
                      = ExpectedParagraphNumbers(doc_lines, k)

\* C6: the text of a parsed paragraph is its content without the leading
\* number marker: "1. applies" / "systems" gives number "1" and the text
\* "applies systems".
C6_TextWithoutMarker ==
    Processed =>
        \A k \in 1..Len(p_result.articles) :
            \A i \in 1..Len(p_result.articles[k].paragraphs) :
                LET para == p_result.articles[k].paragraphs[i]
                IN  para.text # <<>> /\ para.text[1] \notin DotMarks

UnreasonablyLong(line) == Len(line) > 4

\* C21: inside an article, a line that matches the header pattern but is
\* unreasonably long neither closes the article nor opens a new one; it is
\* content of the current article.  So, in a document that starts with a
\* genuine header, no later article is opened by such a line.
C21_LongLineIsNoHeader ==
    (Processed /\ p_result.articles # <<>>
       /\ ~ UnreasonablyLong(p_result.articles[1].content[1])) =>
        \A k \in 2..Len(p_result.articles) :
            ~ UnreasonablyLong(p_result.articles[k].content[1])

-----------------------------------------------------------------------------
(* Knowledge graph: C2, C5 *)

\* a store_articles call has just been made with `articles`
StoredValid(article, para) ==
    article.number # "" /\ para.number # "" /\ para.text # <<>>

\* C2: a store_articles call with the input of the call before it, that call
\* having committed, leaves the Article nodes, the Paragraph nodes, the
\* CONTAINS edges and the REFERENCES edges as they were.
C2_RerunChangesNothing ==
    [][ (/\ n_calls' = n_calls + 1
         /\ last_store.outcome = "ok"
         /\ last_store'.input = last_store.input)
        => /\ a_nodes' = a_nodes
           /\ p_nodes' = p_nodes
           /\ contains' = contains
           /\ references' = references ]_vars

\* a committed rerun on a graph that holds nodes and both kinds of edges,
\* built by an earlier call with another input
C2_Witness ==
    /\ n_calls = 3
    /\ last_store.rerun
    /\ last_store.outcome = "ok"
    /\ BagCardinality(references) >= 2
    /\ Cardinality(a_nodes) >= 3

\* C5: no REFERENCES edge leaves a paragraph for the article that contains
\* it; and after a committed store_articles call, every stored paragraph of
\* its input whose text cites another article k that is in the graph has
\* exactly one REFERENCES edge to k.
C5_ReferenceEdges ==
    /\ \A e \in BagToSet(references) : ~ BagIn(<<e[2], e[1]>>, contains)
    /\ last_store.outcome = "ok" =>
         \A i \in 1..Len(last_store.input) :
            LET article == last_store.input[i]
            IN  \A j \in 1..Len(article.paragraphs) :
                  LET para == article.paragraphs[j]
                  IN  StoredValid(article, para) =>
                        \A k \in UniqueRefs(para.text) \ {article.number} :
                            (\E n \in a_nodes : n.number = k) =>
                                CopiesIn(<<ParaId(article.number, para.number), k>>, references) = 1

\* paragraph 1 of article 2 cites article 1 twice and article 2 itself, was
\* ingested twice, and holds its one edge to article 1
C5_Witness ==
    /\ last_store.outcome = "ok"
    /\ last_store.rerun
    /\ Art2 \in Range(last_store.input)
    /\ CopiesIn(<<ParaId("2", "1"), "1">>, references) = 1
    /\ BagIn(<<"2", ParaId("2", "1")>>, contains)

-----------------------------------------------------------------------------
(* Hybrid retrieval: C3, C4, C8, C9, C10 *)

\* the article set V of the vector path and G of the graph path
VectorArticles == ArticlesOfMatches(last_search.vector_results)
GraphArticles == ArticlesOfMatches(last_search.graph_results)

\* the article numbers of the returned content blocks, in order
ResultArticles == [i \in 1..Len(last_search.result) |-> last_search.result[i].article]

\* every element of S occurs exactly once in s, and nothing else does
ExactlyOnceEach(s, S) ==
    /\ Range(s) = S
    /\ Len(s) = Cardinality(S)

\* C3: a search whose lookups do not fail returns content blocks for exactly
\* the articles of V \cup G that are Article nodes of the graph, each once,
\* and calls get_article_content exactly once per member of V \cup G.
C3_UnionOfStoredArticles ==
    (/\ last_search.done
     /\ last_search.get_fails \cap (VectorArticles \cup GraphArticles) = {})
    => /\ ExactlyOnceEach(ResultArticles,
                          { a \in VectorArticles \cup GraphArticles :
                              \E n \in a_nodes : n.number = a })
       /\ ExactlyOnceEach(last_search.get_calls, VectorArticles \cup GraphArticles)

\* C4: the returned list is in ascending order of the numeric value of the
\* article number.
C4_NumericOrder ==
    last_search.done =>
        \A i, j \in 1..Len(last_search.result) :
            i < j => ToInteger(ResultArticles[i]) < ToInteger(ResultArticles[j])

\* the articles get_article_content finds, lookup failures included
Found(a) == GetArticleContent(Graph, a, a \in last_search.get_fails).value # NotFound

\* C8: search never raises, whatever the vector backend, the keyword search
\* and the article lookups do; an identified article that
\* get_article_content reports as not found is left out and the other
\* identified articles are returned.
C8_NeverRaises ==
    last_search.done =>
        /\ ~ last_search.raised
        /\ \A a \in VectorArticles \cup GraphArticles :
              a \in Range(ResultArticles) <=> Found(a)

\* the keyword search failed, one identified article was not found, another
\* one was returned
C8_Witness ==
    /\ last_search.done
    /\ last_search.graph_fail
    /\ last_search.get_fails # {}
    /\ \E a \in VectorArticles \cup GraphArticles : ~ Found(a)
    /\ last_search.result # <<>>

\* C9: when the vector search fails, search does not raise and returns what
\* the graph path alone gives: the articles of the keyword search results.
C9_VectorFailureDegrades ==
    (last_search.done /\ last_search.vector_fail) =>
        /\ ~ last_search.raised
        /\ last_search.vector_results = <<>>
        /\ last_search.result =
             FetchLoop(Graph, SortedStrings(GraphArticles),
                       last_search.get_fails, FetchInit).final_context
        /\ Range(ResultArticles) = { a \in GraphArticles : Found(a) }

\* the vector search failed and the keyword search found two articles
C9_Witness ==
    /\ last_search.done
    /\ last_search.vector_fail
    /\ Len(last_search.result) >= 2

\* C10: a search with the empty query returns the empty list and calls
\* neither VectorStore.search nor KnowledgeGraph.search nor
\* get_article_content.
C10_EmptyQuery ==
    (last_search.done /\ last_search.query = <<>>) =>
        /\ last_search.result = <<>>
        /\ ~ last_search.raised
        /\ ~ last_search.vector_called
        /\ ~ last_search.graph_called
        /\ last_search.get_calls = <<>>

\* the empty query on a graph that holds articles and paragraphs
C10_Witness ==
    /\ last_search.done
    /\ last_search.query = <<>>
    /\ p_nodes # {}


-----------------------------------------------------------------------------
(* KnowledgeGraph.get_article_content called directly: C11, C12, C20 *)

\* an Article node with this number is stored
ArticleStored(number) == \E a \in a_nodes : a.number = number

\* C11: get_article_content for an article number that is not stored returns
\* not-found (None) and never raises, also when the graph backend fails
\* during the lookup.
C11_NotStoredIsNotFound ==
    (last_read.op = "get_article" /\ ~ ArticleStored(last_read.number)) =>
        /\ ~ last_read.raised
        /\ last_read.value = NotFound

\* a lookup of a number that is not stored, in a graph that holds other
\* articles, during which the backend failed
C11_Witness ==
    /\ last_read.op = "get_article"
    /\ last_read.number # ""
    /\ ~ ArticleStored(last_read.number)
    /\ a_nodes # {}
    /\ last_read.lookup_fails
    /\ last_read.value = NotFound

\* the Paragraph nodes the article with this number CONTAINS
ParagraphsOf(number) == { p \in p_nodes : BagIn(<<number, p.id>>, contains) }

\* C12: get_article_content returns the texts of all the article's paragraphs
\* in ascending numeric value of the paragraph number (paragraph "10" after
\* paragraph "9"), collected into one content, whatever the order in which
\* the paragraphs were upserted.
C12_NumericParagraphOrder ==
    (last_read.op = "get_article" /\ ~ last_read.lookup_fails
       /\ ParagraphsOf(last_read.number) # {}) =>
        /\ last_read.value # NotFound
        /\ LET content == last_read.value[1].content
               ps == ParagraphsOf(last_read.number)
           IN  /\ Len(content) = Cardinality(ps)
               /\ \A p \in ps : \E i \in 1..Len(content) : content[i] = p.text
               /\ \A i, j \in 1..Len(content) :
                     i < j => \E p, q \in ps :
                                /\ p.text = content[i]
                                /\ q.text = content[j]
                                /\ ToInteger(p.number) < ToInteger(q.number)

\* article 10, whose paragraph "10" was upserted before its paragraph "9",
\* is read back with the text of paragraph 9 first
C12_Witness ==
    /\ last_read.op = "get_article"
    /\ last_read.number = "10"
    /\ last_store.input = <<Art2, Art10>>
    /\ last_read.value # NotFound
    /\ last_read.value[1].content = << <<"risk">>, <<"Risk", "Article", "9">> >>


\* C20: get_article_content returns not-found only when no Article node has
\* the number; for every stored article, also one without paragraphs, it
\* returns the stored title and the (possibly empty) ordered content.
C20_StoredArticleIsFound ==
    (last_read.op = "get_article" /\ ~ last_read.lookup_fails) =>
        /\ last_read.value = NotFound <=> ~ ArticleStored(last_read.number)
        /\ last_read.value # NotFound =>
              /\ [number |-> last_read.number, title |-> last_read.value[1].title] \in a_nodes
              /\ Len(last_read.value[1].content) = Cardinality(ParagraphsOf(last_read.number))

-----------------------------------------------------------------------------
(* KnowledgeGraph.search called directly: C13 *)

\* the rows of stored paragraphs whose text contains one of the keywords
MatchingRows(keywords) ==
    { [article |-> a.number, title |-> a.title,
       paragraph_number |-> p.number, text |-> p.text] :
      <<a, p>> \in { x \in a_nodes \X p_nodes :
                       /\ BagIn(<<x[1].number, x[2].id>>, contains)
                       /\ \E k \in keywords : TextContains(x[2].text, k) } }

\* article number, then paragraph number, as numbers
NumberBefore(r1, r2) ==
    \/ ToInteger(r1.article) < ToInteger(r2.article)
    \/ /\ ToInteger(r1.article) = ToInteger(r2.article)
       /\ ToInteger(r1.paragraph_number) < ToInteger(r2.paragraph_number)

\* C13: KnowledgeGraph.search returns only paragraphs whose text contains one
\* of the keywords, in the order of article number then paragraph number,
\* never more than top_k of them and, when the backend answers, the first
\* top_k of that order; an empty keyword list gives an empty list and no error.
C13_KeywordSearch ==
    last_read.op = "keyword_search" =>
        LET results == last_read.results
            rows == MatchingRows(last_read.keywords)
            returned == Range(results)
        IN  /\ ~ last_read.raised
            /\ last_read.keywords = {} => results = <<>>
            /\ returned \subseteq rows
            /\ Len(results) <= last_read.top_k
            /\ \A i, j \in 1..Len(results) :
                    i < j => NumberBefore(results[i], results[j])
            /\ ~ last_read.backend_fail =>
                    /\ Len(results) = IF Cardinality(rows) < last_read.top_k
                                      THEN Cardinality(rows) ELSE last_read.top_k
                    /\ \A r \in returned, q \in rows \ returned : NumberBefore(r, q)

-----------------------------------------------------------------------------
(* VectorStore.search called directly: C16 *)

\* the query is the empty string or consists of whitespace only
IsBlank(query) == \A i \in 1..Len(query) : ~ IsWord(query[i])

\* C16: VectorStore.search with an empty or whitespace-only query returns an
\* empty result and calls neither the embedding model nor the vector backend.
C16_BlankQuery ==
    (last_read.op = "vector_search" /\ IsBlank(last_read.query)) =>
        /\ last_read.matches = <<>>
        /\ ~ last_read.called
        /\ ~ last_read.raised

-----------------------------------------------------------------------------
(* VectorStore.store_articles: C14 *)

\* the paragraphs of an article list, each with its article
ParagraphsOfList(articles) ==
    UNION { { <<articles[i], articles[i].paragraphs[j]>> :
                j \in 1..Len(articles[i].paragraphs) } : i \in 1..Len(articles) }

\* the vector records stored under an id
RecordsOf(index, id) == { r \in index : r.id = id }

\* the ids of the paragraphs of the list whose text is not empty
EmbeddedIds(articles) ==
    { VectorRecord(x[1], x[2]).id : x \in { y \in ParagraphsOfList(articles) : y[2].text # <<>> } }

\* no embedding and no batch upsert failed during the call
CleanVectorCall(call) ==
    /\ \A i \in 1..Len(call.batches) : ~ call.batches[i].failed
    /\ call.encode_fails \cap EmbeddedIds(call.input) = {}

-----------------------------------------------------------------------------
(* The two stores after the ingestion script: C15 *)

\* C15: after the vector store and the knowledge graph have both ingested the
\* same article list (no call failing), the ids of the vector records are
\* exactly the ids of the Paragraph nodes, for any list, also one with
\* articles or paragraphs that lack a number.
C15_SameIds ==
    (/\ n_calls = 1 /\ n_vcalls = 1
     /\ last_store.input = last_vstore.input
     /\ last_store.outcome = "ok"
     /\ CleanVectorCall(last_vstore)) =>
        { r.id : r \in v_index } = { p.id : p \in p_nodes }

-----------------------------------------------------------------------------
(* The session API: C17, C18, C19 *)

\* C17: GET /sessions/{session_id} responds 404 whenever the storage holds
\* no session with that id.
C17_GetMissingSessionIs404 ==
    (last_response.op = "get_session" /\ ~ last_response.existed) =>
        last_response.status = 404

\* C18: POST /chat/message with a session_id for which the storage holds no
\* session responds 404, and the request saves no session.
C18_PostToMissingSessionIs404 ==
    (/\ last_response.op = "post_message"
     /\ last_response.session_id # NoSessionId
     /\ ~ last_response.existed) =>
        /\ last_response.status = 404
        /\ ~ last_response.saved

\* C19: DELETE /sessions/{session_id} responds 404 for an id the storage does
\* not hold, and responds 204 only when a session with the id existed and
\* has been removed.
C19_DeleteMissingSessionIs404 ==
    last_response.op = "delete_session" =>
        /\ ~ last_response.existed => last_response.status = 404
        /\ last_response.status = 204 =>
              /\ last_response.existed
              /\ last_response.session_id \notin DOMAIN sessions

-----------------------------------------------------------------------------
(* Knowledge graph: C23, C24, C28, C29 *)

\* the positions of the list whose article is merged by the node transaction
ArticleWrites(articles, number) ==
    { i \in 1..Len(articles) : number # "" /\ articles[i].number = number }

\* the positions <<article, paragraph>> of the list whose paragraph is merged
\* under the id
ParagraphWrites(articles, id) ==
    { x \in UNION { { <<i, j>> : j \in 1..Len(articles[i].paragraphs) } : i \in 1..Len(articles) } :
        /\ StoredValid(articles[x[1]], articles[x[1]].paragraphs[x[2]])
        /\ ParaId(articles[x[1]].number, articles[x[1]].paragraphs[x[2]].number) = id }

\* the last position of a non-empty set of positions, in the order of the two loops
LastArticleWrite(is) == CHOOSE i \in is : \A k \in is : k <= i
LastParagraphWrite(xs) ==
    CHOOSE x \in xs : \A y \in xs : y[1] < x[1] \/ (y[1] = x[1] /\ y[2] <= x[2])

\* C23: after every store_articles call the graph holds at most one Article
\* node per number and one Paragraph node per id; a key the call wrote has a
\* node whose attributes are those of the last entry of the input with that
\* key, and a node whose key the call did not write is as it was before.
C23_OneNodePerKey ==
    [][ n_calls' = n_calls + 1 =>
          LET articles == last_store'.input
              committed == last_store'.outcome # "nodes_failed"
          IN  /\ \A n, m \in a_nodes' : n.number = m.number => n = m
              /\ \A p, q \in p_nodes' : p.id = q.id => p = q
              /\ \A n \in a_nodes' :
                    LET is == ArticleWrites(articles, n.number)
                    IN  IF committed /\ is # {}
                        THEN n.title = articles[LastArticleWrite(is)].title
                        ELSE n \in a_nodes
              /\ \A p \in p_nodes' :
                    LET xs == ParagraphWrites(articles, p.id)
                    IN  IF committed /\ xs # {}
                        THEN LET x == LastParagraphWrite(xs)
                                 para == articles[x[1]].paragraphs[x[2]]
                             IN  p.number = para.number /\ p.text = para.text
                        ELSE p \in p_nodes
              /\ committed =>
                    /\ \A i \in 1..Len(articles) :
                          articles[i].number # "" =>
                              \E n \in a_nodes' : n.number = articles[i].number
                    /\ \A id \in { ParaId(a, b) : a \in NumTokens, b \in NumTokens } :
                          ParagraphWrites(articles, id) # {} =>
                              \E p \in p_nodes' : p.id = id ]_vars

\* article 1 was stored with the text that cites article 2, and the last
\* call has written its title and the text of its paragraph 1 again
C23_Witness ==
    /\ last_store.input = <<Art1>>
    /\ last_store.outcome = "ok"
    /\ [number |-> "1", title |-> Art1.title] \in a_nodes
    /\ [id |-> ParaId("1", "1"), number |-> "1", text |-> Art1.paragraphs[1].text] \in p_nodes
    /\ BagIn(<<ParaId("1", "1"), "2">>, references)
    /\ Cardinality(a_nodes) = 2

\* C24: when a store_articles call has returned, whatever write failed in
\* it, there is at most one entry of its input list whose article is not in
\* the graph: every other numbered article of the list has its Article node
\* and the Paragraph nodes of its storable paragraphs.
C24_FailureIsLocal ==
    n_calls > 0 =>
        LET articles == last_store.input
        IN  \E failed \in 0..Len(articles) :
                \A i \in 1..Len(articles) :
                    (i # failed /\ articles[i].number # "") =>
                        /\ \E n \in a_nodes : n.number = articles[i].number
                        /\ \A j \in 1..Len(articles[i].paragraphs) :
                              StoredValid(articles[i], articles[i].paragraphs[j]) =>
                                  \E p \in p_nodes :
                                      p.id = ParaId(articles[i].number,
                                                    articles[i].paragraphs[j].number)

\* C28: after every store_articles call each REFERENCES edge starts at a
\* Paragraph node and ends at an Article node of the graph, and every Article
\* node was in the graph before the call or is an article of the call's
\* input: a cited article that has no node gets neither an edge nor a node.
C28_ReferencesJoinExistingNodes ==
    [][ n_calls' = n_calls + 1 =>
          /\ \A e \in BagToSet(references') :
                /\ \E p \in p_nodes' : p.id = e[1]
                /\ \E n \in a_nodes' : n.number = e[2]
          /\ \A n \in a_nodes' :
                \/ \E m \in a_nodes : m.number = n.number
                \/ ArticleWrites(last_store'.input, n.number) # {} ]_vars

\* paragraph 10 of article 10 cites article 9 and is stored; article 9 has
\* no node and no edge leads to it, while another citation of the same call
\* has its edge
C28_Witness ==
    /\ last_store.outcome = "ok"
    /\ last_store.input = <<Art2, Art10>>
    /\ "9" \in UniqueRefs(Art10.paragraphs[1].text)
    /\ \E p \in p_nodes : p.id = ParaId("10", "10")
    /\ ~ \E n \in a_nodes : n.number = "9"
    /\ ~ \E e \in BagToSet(references) : e[2] = "9"
    /\ BagIn(<<ParaId("2", "1"), "1">>, references)

\* the keys of the nodes
ArticleKeys(nodes) == { n.number : n \in nodes }
ParagraphKeys(nodes) == { p.id : p \in nodes }

\* C29: no store_articles call removes anything: the Article nodes and the
\* Paragraph nodes of the graph before the call are still there by key after
\* it, and so is every CONTAINS and every REFERENCES edge, an edge written
\* for an earlier text of the paragraph included.
C29_NothingIsRemoved ==
    [][ n_calls' = n_calls + 1 =>
          /\ ArticleKeys(a_nodes) \subseteq ArticleKeys(a_nodes')
          /\ ParagraphKeys(p_nodes) \subseteq ParagraphKeys(p_nodes')
          /\ contains \sqsubseteq contains'
          /\ references \sqsubseteq references' ]_vars

\* paragraph 1 of article 1 has been ingested again with a text that cites
\* no article, and the edge to article 2 of its earlier text is in the graph
C29_Witness ==
    /\ last_store.outcome = "ok"
    /\ Art1 \in Range(last_store.input)
    /\ \E p \in p_nodes : p.id = ParaId("1", "1") /\ p.text = Art1.paragraphs[1].text
    /\ UniqueRefs(Art1.paragraphs[1].text) = {}
    /\ BagIn(<<ParaId("1", "1"), "2">>, references)

-----------------------------------------------------------------------------
(* Vector store: C25 *)

RECURSIVE EmbeddedSequence(_, _)
\* the ids of the records appended to vectors_to_upsert during one call, in
\* the order of the two loops: the paragraphs with a text whose embedding succeeds
EmbeddedSequence(articles, encode_fails) ==
    IF articles = <<>> THEN <<>>
    ELSE LET article == Head(articles)
             Embedded(para) == /\ para.text # <<>>
                               /\ VectorRecord(article, para).id \notin encode_fails
             paras == SelectSeq(article.paragraphs, Embedded)
         IN  [j \in 1..Len(paras) |-> VectorRecord(article, paras[j]).id]
                \o EmbeddedSequence(Tail(articles), encode_fails)

\* the smaller of two numbers
Min(a, b) == IF a <= b THEN a ELSE b

-----------------------------------------------------------------------------
(* One ingestion of an article list, transaction by transaction and batch  *)
(* by batch: KnowledgeGraph.store_articles and VectorStore.store_articles  *)
(* on the same list, their steps in any order                              *)

RECURSIVE NodesAndReferencesPerArticle(_, _)
\* one pass over the list: the references of an article are written right
\* after its nodes, before the nodes of the articles that follow
NodesAndReferencesPerArticle(g, articles) ==
    IF articles = <<>> THEN g
    ELSE LET article == Head(articles)
             g1 == IF article.number = "" THEN g
                   ELSE CreateArticleRefs(
                            CreateParagraphNodes(
                                MergeArticle(g, article.number, article.title),
                                article.number, article.paragraphs),
                            article.number, article.paragraphs)
         IN  NodesAndReferencesPerArticle(g1, Tail(articles))

\* the transaction function of the first execute_write
NodePhase(g, articles) == CreateArticleAndParagraphNodes(g, articles)

\* the transaction function of the second execute_write
ReferencePhase(g, articles) == CreateCrossReferences(g, articles)

\* execute_write without a transaction around the statements: what was
\* written before the failure stays (here the failure comes at the end)
ExecuteWriteAutoCommit(g, written, fails) == written

\* session.execute_write(fn, articles): the writes of fn are committed
\* together, or fn raises and the transaction is rolled back
ExecuteWrite(g, written, fails) == IF fails THEN g ELSE written

\* except Exception: logging.exception(...) - nothing leaves store_articles
StoreArticlesRaises(fails) == FALSE

\* article.setdefault("number", "N/A"): the default is written into the article
AfterSetDefault(article) == [article EXCEPT !.number = NumberOrDefault(@)]

\* article.get("number", "N/A"): the article of the shared list is left as it is
AfterGet(article) == article

\* the positions <<article, paragraph>> of a list, in the order of the two loops
RECURSIVE Positions(_, _)
Positions(articles, i) ==
    IF i > Len(articles) THEN <<>>
    ELSE [j \in 1..Len(articles[i].paragraphs) |-> <<i, j>>] \o Positions(articles, i + 1)

RECURSIVE VectorLoop(_, _, _)
\* VectorStore.store_articles from the paragraph at Head(rest) up to and
\* including its next _upsert_batch call, or to its return
VectorLoop(st, articles, rest) ==
    IF rest = <<>>
    THEN [st |-> IF st.vectors_to_upsert # <<>>
                 THEN UpsertBatch(st, st.vectors_to_upsert) ELSE st,
          rest |-> <<>>, returned |-> TRUE]
    ELSE LET x == Head(rest)
             st1 == StoreParagraph(st, articles[x[1]], articles[x[1]].paragraphs[x[2]])
         IN  IF Len(st1.batches) > Len(st.batches)
             THEN [st |-> st1, rest |-> Tail(rest), returned |-> FALSE]
             ELSE VectorLoop(st1, articles, Tail(rest))

\* the two calls are made on the list; they have not taken a step yet
BeginRun(articles, encode_fails) ==
    /\ ingest_run.n < MaxRuns
    /\ ingest_run.g_pc \in {"idle", "returned"}
    /\ ingest_run.v_pc \in {"idle", "returned"}
    /\ ingest_run' =
          [n |-> ingest_run.n + 1, input |-> articles, articles |-> articles,
           g_pc |-> "nodes", g_outcome |-> "none", g_raised |-> FALSE, g0 |-> Graph,
           v_pc |-> "loop", v_rest |-> Positions(articles, 1), v0 |-> v_index,
           v_st |-> [index |-> v_index, vectors_to_upsert |-> <<>>, batches |-> <<>>,
                     encode_fails |-> encode_fails, fail_batches |-> {}]]
    /\ UNCHANGED <<parse_vars, store_vars, vector_vars, last_search, last_read,
                   app_vars, search_run>>

\* KnowledgeGraph.store_articles, line 64: the node transaction
GraphNodesStep(fails) ==
    /\ ingest_run.g_pc = "nodes"
    /\ LET g == ExecuteWrite(Graph, NodePhase(Graph, ingest_run.articles), fails)
       IN  /\ a_nodes' = g.a_nodes
           /\ p_nodes' = g.p_nodes
           /\ contains' = g.contains
           /\ references' = g.references
    /\ ingest_run' = [ingest_run EXCEPT
                        !.g_pc = IF fails THEN "returned" ELSE "refs",
                        !.g_outcome = IF fails THEN "nodes_failed" ELSE "none",
                        !.g_raised = StoreArticlesRaises(fails)]
    /\ UNCHANGED <<parse_vars, last_store, n_calls, vector_vars, last_search, last_read,
                   app_vars, search_run>>

\* KnowledgeGraph.store_articles, line 69: the reference transaction
GraphRefsStep(fails) ==
    /\ ingest_run.g_pc = "refs"
    /\ LET g == ExecuteWrite(Graph, ReferencePhase(Graph, ingest_run.articles), fails)
       IN  /\ a_nodes' = g.a_nodes
           /\ p_nodes' = g.p_nodes
           /\ contains' = g.contains
           /\ references' = g.references
    /\ ingest_run' = [ingest_run EXCEPT
                        !.g_pc = "returned",
                        !.g_outcome = IF fails THEN "refs_failed" ELSE "ok",
                        !.g_raised = StoreArticlesRaises(fails)]
    /\ UNCHANGED <<parse_vars, last_store, n_calls, vector_vars, last_search, last_read,
                   app_vars, search_run>>

\* VectorStore.store_articles up to its next upsert request, which fails or
\* not, or to its return
VectorStep(fails) ==
    /\ ingest_run.v_pc = "loop"
    /\ LET st0 == [ingest_run.v_st EXCEPT
                     !.fail_batches = IF fails THEN @ \cup {Len(ingest_run.v_st.batches) + 1}
                                      ELSE @]
           r == VectorLoop(st0, ingest_run.articles, ingest_run.v_rest)
           read == { ingest_run.v_rest[k][1] :
                       k \in 1..(Len(ingest_run.v_rest) - Len(r.rest)) }
       IN  /\ fails => Len(r.st.batches) > Len(st0.batches)
           /\ v_index' = r.st.index
           /\ ingest_run' = [ingest_run EXCEPT
                               !.v_st = r.st,
                               !.v_rest = r.rest,
                               !.v_pc = IF r.returned THEN "returned" ELSE "loop",
                               !.articles = [i \in 1..Len(@) |->
                                               IF i \in read THEN AfterGet(@[i]) ELSE @[i]]]
    /\ UNCHANGED <<parse_vars, store_vars, last_vstore, n_vcalls, last_search, last_read,
                   app_vars, search_run>>

\* the article lists of an ingestion made before the one that is followed step by step
PreviousInputs == { <<Art2, Art1b>>, <<Art10, Art9>> }

\* an earlier run of the script on a list, without failures, has filled the
\* two stores: main(), lines 62-81
PreviousRun(articles) ==
    /\ ingest_run = NoRun
    /\ LET g == StoreArticlesResult(Graph, articles, "ok")
       IN  /\ a_nodes' = g.a_nodes
           /\ p_nodes' = g.p_nodes
           /\ contains' = g.contains
           /\ references' = g.references
    /\ v_index' = VectorStoreArticles(v_index, articles, {}, {}).index
    /\ ingest_run' = [NoRun EXCEPT !.input = articles, !.articles = articles,
                                   !.g_pc = "returned", !.g_outcome = "ok",
                                   !.v_pc = "returned"]
    /\ UNCHANGED <<parse_vars, last_store, n_calls, last_vstore, n_vcalls, last_search,
                   last_read, app_vars, search_run>>

PreviousIngestion == \E articles \in PreviousInputs : PreviousRun(articles)
StartIngestion == \E articles \in ArticleInputs, encode_fails \in EncodeFailures :
                     BeginRun(articles, encode_fails)
NodeTransaction == \E fails \in BOOLEAN : GraphNodesStep(fails)
ReferenceTransaction == \E fails \in BOOLEAN : GraphRefsStep(fails)
UpsertRequest == \E fails \in BOOLEAN : VectorStep(fails)

\* the steps of the two stores in any order
NextConcurrent == PreviousIngestion \/ StartIngestion \/ NodeTransaction \/ ReferenceTransaction \/ UpsertRequest
SpecConcurrent == Init /\ [][NextConcurrent]_vars

-----------------------------------------------------------------------------
(* The two phases of KnowledgeGraph.store_articles: C22, C30 *)

\* every numbered article of the list has its Article node, and every
\* paragraph of it that can be stored has its Paragraph node
AllNodesUpserted(a, p, articles) ==
    \A i \in 1..Len(articles) :
        articles[i].number # "" =>
            /\ \E n \in a : n.number = articles[i].number
            /\ \A j \in 1..Len(articles[i].paragraphs) :
                  StoredValid(articles[i], articles[i].paragraphs[j]) =>
                      \E q \in p : q.id = ParaId(articles[i].number,
                                                 articles[i].paragraphs[j].number)

\* C22: a transaction of a store_articles call writes a REFERENCES edge only
\* when the node transaction of the call has committed, every Article and
\* Paragraph node of the input being in the graph; and when the call has
\* returned with both transactions committed, every stored paragraph of the
\* input that cites another article of the input, wherever that article is
\* in the list, has its REFERENCES edge.
C22_NodesBeforeReferences ==
    [][ /\ (references' # references /\ ingest_run.n > 0) =>
              /\ ingest_run.g_pc = "refs"
              /\ AllNodesUpserted(a_nodes, p_nodes, ingest_run.input)
        /\ (ingest_run.g_pc = "refs" /\ ingest_run'.g_outcome = "ok") =>
              LET articles == ingest_run.input
              IN  \A i \in 1..Len(articles) :
                    \A j \in 1..Len(articles[i].paragraphs) :
                       StoredValid(articles[i], articles[i].paragraphs[j]) =>
                          \A k \in UniqueRefs(articles[i].paragraphs[j].text) \ {articles[i].number} :
                             ArticleWrites(articles, k) # {} =>
                                BagIn(<<ParaId(articles[i].number,
                                               articles[i].paragraphs[j].number), k>>,
                                      references') ]_vars

\* article 10, whose paragraph 10 cites article 9, was ingested in one call
\* with article 9 after it in the list, into a graph without either, and the
\* edge is there when the call has returned
C22_Witness ==
    /\ ingest_run.input = <<Art10, Art9>>
    /\ ingest_run.g_pc = "returned"
    /\ ingest_run.g_outcome = "ok"
    /\ ~ \E n \in ingest_run.g0.a_nodes : n.number \in {"9", "10"}
    /\ BagIn(<<ParaId("10", "10"), "9">>, references)

\* the graph after the step
GraphAfter == [a_nodes |-> a_nodes', p_nodes |-> p_nodes', contains |-> contains',
               references |-> references']

\* C30: store_articles never raises.  When its node transaction fails the
\* graph is as it was before the call and the call returns without running
\* the reference transaction; when its reference transaction fails the
\* graph holds every node and CONTAINS edge of the call's input and the
\* REFERENCES edges are those of before the call.
C30_TwoAtomicPhases ==
    [][ /\ ~ ingest_run'.g_raised
        /\ (ingest_run.g_pc = "nodes" /\ ingest_run'.g_outcome = "nodes_failed") =>
              /\ GraphAfter = ingest_run.g0
              /\ ingest_run'.g_pc = "returned"
        /\ (ingest_run.g_outcome = "nodes_failed" /\ ingest_run'.n = ingest_run.n) =>
              GraphAfter = Graph
        /\ (ingest_run.g_pc = "refs" /\ ingest_run'.g_outcome = "refs_failed") =>
              /\ ingest_run'.g_pc = "returned"
              /\ GraphAfter = CreateArticleAndParagraphNodes(ingest_run.g0, ingest_run.input)
              /\ AllNodesUpserted(a_nodes', p_nodes', ingest_run.input)
              /\ references' = ingest_run.g0.references ]_vars

\* the reference transaction of a call on articles 1 and 2 has failed: the
\* nodes of both are in the graph, and the edge from article 2 to article 1
\* is not
C30_Witness ==
    /\ ingest_run.input = <<Art1, Art2>>
    /\ ingest_run.g_outcome = "refs_failed"
    /\ ingest_run.g0 = EmptyGraph
    /\ Cardinality(a_nodes) = 2
    /\ Cardinality(p_nodes) = 3
    /\ BagCardinality(contains) = 3
    /\ references = EmptyBag

-----------------------------------------------------------------------------
(* The two stores side by side: C27 *)

\* C27: whatever the order of the steps of the two store_articles calls on
\* a list, and whatever failed in the other store, the graph after the
\* graph call is the one the call alone makes of the graph before it, the
\* list and its own failures, and the index after the vector call is the one
\* that call alone makes of the index before it, the list and its own failures.
C27_StoresAreIndependent ==
    /\ (ingest_run.g_pc = "returned" /\ ingest_run.n > 0) =>
          Graph = StoreArticlesResult(ingest_run.g0, ingest_run.input, ingest_run.g_outcome)
    /\ (ingest_run.v_pc = "returned" /\ ingest_run.n > 0) =>
          v_index = VectorStoreArticles(ingest_run.v0, ingest_run.input,
                                        ingest_run.v_st.encode_fails,
                                        ingest_run.v_st.fail_batches).index

\* the node transaction of the graph call failed and left the graph empty,
\* while every upsert request of the vector call on the same two articles
\* was written
C27_Witness ==
    /\ ingest_run.input = <<Art1, Art2>>
    /\ ingest_run.g_outcome = "nodes_failed"
    /\ a_nodes = {}
    /\ ingest_run.v_pc = "returned"
    /\ Len(ingest_run.v_st.batches) = 2
    /\ \A id \in EmbeddedIds(ingest_run.input) : RecordsOf(v_index, id) # {}

-----------------------------------------------------------------------------
(* HybridRetriever.search, backend call by backend call: C26 *)

\* the backend search that never answers during one search call
Hangs == {"none", "vector", "graph"}

\* search(query) is called; lines 36-43
BeginSearch(query, hangs) ==
    /\ search_run.pc = "idle"
    /\ search_run' =
          IF query = <<>>
          THEN [search_run EXCEPT !.pc = "returned", !.hangs = hangs,
                                  !.record = HybridSearch(Graph, query, @.vbackend,
                                                          @.gbackend, {})]
          ELSE [search_run EXCEPT !.pc = "vector_search", !.query = query, !.hangs = hangs]
    /\ UNCHANGED <<parse_vars, store_vars, vector_vars, last_search, last_read,
                   app_vars, ingest_run>>

\* self.vector_store.search(query, ...) returns; lines 43-66
VectorSearchReturns(vbackend) ==
    /\ search_run.pc = "vector_search"
    /\ search_run.hangs # "vector"
    /\ search_run' = [search_run EXCEPT
                        !.vbackend = vbackend,
                        !.pc = IF ExtractKeywords(search_run.query) = {}
                               THEN "fetch" ELSE "graph_search"]
    /\ UNCHANGED <<parse_vars, store_vars, vector_vars, last_search, last_read,
                   app_vars, ingest_run>>

\* self.knowledge_graph.search(keywords, ...) returns; lines 67-73
GraphSearchReturns(gbackend) ==
    /\ search_run.pc = "graph_search"
    /\ search_run.hangs # "graph"
    /\ search_run' = [search_run EXCEPT !.gbackend = gbackend, !.pc = "fetch"]
    /\ UNCHANGED <<parse_vars, store_vars, vector_vars, last_search, last_read,
                   app_vars, ingest_run>>

\* the fetch loop and the return; lines 78-100
FetchAndReturn(get_fails) ==
    /\ search_run.pc = "fetch"
    /\ search_run' = [search_run EXCEPT
                        !.pc = "returned",
                        !.record = HybridSearch(Graph, search_run.query, search_run.vbackend,
                                                search_run.gbackend, get_fails)]
    /\ UNCHANGED <<parse_vars, store_vars, vector_vars, last_search, last_read,
                   app_vars, ingest_run>>

\* the graph is filled by one clean ingestion before the search
IngestBeforeSearch == \E articles \in ArticleInputs :
                         /\ search_run.pc = "idle"
                         /\ StoreArticles(articles, "ok", MaxRuns)

CallSearch == \E query \in Queries, hangs \in Hangs : BeginSearch(query, hangs)
VectorAnswer == \E vbackend \in VectorBackends : VectorSearchReturns(vbackend)
GraphAnswer == \E gbackend \in GraphSearchBackends : GraphSearchReturns(gbackend)
Fetch == \E get_fails \in GetFailures : FetchAndReturn(get_fails)

\* one search call; a backend call that is not hanging returns, and the
\* thread of search goes on when the call it waits for has returned
NextSearch == IngestBeforeSearch \/ CallSearch \/ VectorAnswer \/ GraphAnswer \/ Fetch
SpecSearch == /\ Init /\ [][NextSearch]_vars
              /\ WF_vars(VectorAnswer) /\ WF_vars(GraphAnswer) /\ WF_vars(Fetch)

\* C26: when one of the two backend searches of a search call never
\* completes, the call still returns.
C26_SearchReturnsWithOtherPath ==
    (search_run.pc # "idle" /\ search_run.hangs # "none") ~> (search_run.pc = "returned")

=============================================================================
